---- MODULE Spec2Model ----
(***************************************************************************)
(* dotman: a dotfile manager.  The model covers src/src/main.rs: the       *)
(* command dispatch of parse_arguments (sync, link, generate), the palette *)
(* step, link placement (symlink_files, symlink_dir_all, symlink_file) and *)
(* template generation, over an explicit POSIX-like filesystem with        *)
(* directories, regular files and symbolic links.                          *)
(*                                                                         *)
(* A path is a sequence of tokens.  "/" as first token makes it absolute,  *)
(* "." is the current directory, "~" and "$HOME" are the tokens            *)
(* resolve_home_dir rewrites.  The filesystem maps physical paths          *)
(* (sequences of names from the root) to nodes.                            *)
(***************************************************************************)
EXTENDS Integers, Sequences, FiniteSets, TLC

VARIABLES
    fs,        \* the filesystem: physical path -> node
    manifest,  \* [wallpaper, files]: the parsed Manifest.toml
    cmd,       \* "sync" | "link" | "generate"
    force,     \* -f / --force
    name,      \* the NAME argument, NoName when absent
    pc,        \* position inside parse_arguments
    todo,      \* indices into manifest.files still to be visited by the loop
    config,    \* VarMap: the set of defined template variables
    err,       \* "" or the kind of the error parse_arguments returned
    events,    \* what this run invoked, in order: [e, n]
    outcomes,  \* one record per leaf symlink_file handled in this run
    ops,       \* the filesystem mutations of this run outside symlink_file's log
    runs,      \* how many times the command has been started
    fsStart,   \* the filesystem when this run started
    prev       \* [out, err, started]: the previous run's outcomes, error and start

vars == <<fs, manifest, cmd, force, name, pc, todo, config, err, events,
          outcomes, ops, runs, fsStart, prev>>

\* ---------------------------------------------------------------- bounds
MaxEntries == 2
MaxRuns == 2
\* symbolic links followed while resolving one path (ELOOP beyond it)
MaxHops == 4

\* ------------------------------------------------------------ filesystem
Dir == [k |-> "dir", c |-> "", t |-> <<>>]
RegFile(c) == [k |-> "file", c |-> c, t |-> <<>>]
SymLink(t) == [k |-> "link", c |-> "", t |-> t]

ENOENT == <<"!ENOENT">>
ENOTDIR == <<"!ENOTDIR">>
ELOOP == <<"!ELOOP">>
IsErr(p) == p \in {ENOENT, ENOTDIR, ELOOP}

\* the process environment: HOME, and the current directory, which
\* Manifest::try_from sets to the manifest's parent directory
Home == <<"/", "h">>
Cwd == <<"r">>

IsAbs(p) == p # <<>> /\ Head(p) = "/"
Names(p) == SelectSeq(p, LAMBDA x : x \notin {"/", "."})
\* the components the kernel walks from the root for path p
Components(p) == IF IsAbs(p) THEN Names(p) ELSE Cwd \o Names(p)
\* Path::parent, Path::file_name, Path::join
parent(p) == SubSeq(p, 1, Len(p) - 1)
file_name(p) == p[Len(p)]
join(p, n) == Append(p, n)

\* Walk `rest` from the physical directory `cur`, following symbolic links.
RECURSIVE Resolve(_, _, _, _)
Resolve(f, cur, rest, hops) ==
    IF rest = <<>> THEN cur
    ELSE IF f[cur].k # "dir" THEN ENOTDIR
    ELSE IF Append(cur, Head(rest)) \notin DOMAIN f THEN ENOENT
    ELSE IF f[Append(cur, Head(rest))].k # "link"
    THEN Resolve(f, Append(cur, Head(rest)), Tail(rest), hops)
    ELSE IF hops = 0 THEN ELOOP
    ELSE Resolve(f,
                 IF IsAbs(f[Append(cur, Head(rest))].t) THEN <<>> ELSE cur,
                 Names(f[Append(cur, Head(rest))].t) \o Tail(rest),
                 hops - 1)

\* stat: the physical node path p resolves to, following every link
Phys(f, p) == Resolve(f, <<>>, Components(p), MaxHops)

\* the entry called n of the physical directory par, when par is one
Under(f, par, n) ==
    IF IsErr(par) THEN par
    ELSE IF f[par].k # "dir" THEN ENOTDIR
    ELSE Append(par, n)

\* lstat: the physical place of p's last component, not following it
LPhys(f, p) ==
    IF Components(p) = <<>> THEN <<>>
    ELSE Under(f, Resolve(f, <<>>, parent(Components(p)), MaxHops),
               file_name(Components(p)))

AsPath(q) == IF IsErr(q) THEN q ELSE <<"/">> \o q
\* Path::canonicalize: the absolute, link-free path, or the error
canonicalize(f, p) == AsPath(Phys(f, p))
\* Path::exists, Path::is_dir (both follow links), Path::is_symlink (lstat)
exists(f, p) == ~IsErr(Phys(f, p))
KindAt(f, q) == IF IsErr(q) \/ q \notin DOMAIN f THEN "none" ELSE f[q].k
is_dir(f, p) == KindAt(f, Phys(f, p)) = "dir"
is_symlink(f, p) == KindAt(f, LPhys(f, p)) = "link"

\* f with node n put at physical path q / with q taken out
Put(f, q, n) == [x \in DOMAIN f \cup {q} |-> IF x = q THEN n ELSE f[x]]
Drop(f, q) == [x \in DOMAIN f \ {q} |-> f[x]]

\* ---------------------------------------------------------------- syscalls
\* symlink(2) at the physical place q
symlink_at(f, target, q) ==
    IF IsErr(q) THEN [r |-> "err", fs |-> f]
    ELSE IF q \in DOMAIN f THEN [r |-> "exists", fs |-> f]
    ELSE [r |-> "ok", fs |-> Put(f, q, SymLink(target))]
\* std::os::unix::fs::symlink(target, dest): "ok", "exists" (AlreadyExists)
\* or "err" (the parent of dest is missing or is no directory)
symlink(f, target, dest) == symlink_at(f, target, LPhys(f, dest))

\* an unlink that removes whatever is at q, a directory included
unlink_at_any(f, q) ==
    IF IsErr(q) \/ q \notin DOMAIN f THEN [r |-> "err", fs |-> f]
    ELSE [r |-> "ok", fs |-> Drop(f, q)]
\* unlink(2) at the physical place q; a directory is not removed
unlink_at(f, q) ==
    IF IsErr(q) \/ q \notin DOMAIN f THEN [r |-> "err", fs |-> f]
    ELSE IF f[q].k = "dir" THEN [r |-> "err", fs |-> f]
    ELSE [r |-> "ok", fs |-> Drop(f, q)]
\* std::fs::remove_file(dest)
remove_file(f, dest) == unlink_at(f, LPhys(f, dest))

\* mkdir(2) at the physical place q
mkdir_at(f, q) ==
    IF q = ENOENT THEN [r |-> "notfound", fs |-> f]
    ELSE IF IsErr(q) THEN [r |-> "err", fs |-> f]
    ELSE IF q \in DOMAIN f THEN [r |-> "exists", fs |-> f]
    ELSE [r |-> "ok", fs |-> Put(f, q, Dir)]
mkdir(f, p) == mkdir_at(f, LPhys(f, p))

\* std::fs::create_dir_all(p): mkdir, on NotFound the parent first, and any
\* other failure is fine when p is a directory by then
RECURSIVE create_dir_all(_, _)
RECURSIVE after_mkdir(_, _, _)
RECURSIVE after_parent(_, _)
\* the second mkdir, once the parent is there
mkdir_again(f, p, r) ==
    IF r.r = "ok" THEN [ok |-> TRUE, fs |-> r.fs]
    ELSE [ok |-> is_dir(f, p), fs |-> f]
after_parent(p, up) ==
    IF ~up.ok THEN up ELSE mkdir_again(up.fs, p, mkdir(up.fs, p))
after_mkdir(f, p, r) ==
    IF r.r = "ok" THEN [ok |-> TRUE, fs |-> r.fs]
    ELSE IF r.r = "notfound" /\ Names(p) # <<>>
    THEN after_parent(p, create_dir_all(f, parent(p)))
    ELSE [ok |-> is_dir(f, p), fs |-> f]
create_dir_all(f, p) == after_mkdir(f, p, mkdir(f, p))

\* a set as a sequence, in one fixed order
RECURSIVE SetToSeq(_)
SetToSeq(S) ==
    IF S = {} THEN <<>>
    ELSE <<CHOOSE y \in S : TRUE>> \o SetToSeq(S \ {CHOOSE y \in S : TRUE})

Reverse(s) == [i \in 1..Len(s) |-> s[Len(s) + 1 - i]]

\* the names in the physical directory q
Children(f, q) ==
    {x[Len(x)] : x \in {y \in DOMAIN f :
                          Len(y) = Len(q) + 1 /\ SubSeq(y, 1, Len(q)) = q}}
Listing(names, rev) == IF rev THEN Reverse(names) ELSE names
\* std::fs::read_dir(target): the names in the directory, in the platform's
\* listing order (one fixed order or its reverse)
read_dir(f, target, rev) == Listing(SetToSeq(Children(f, Phys(f, target))), rev)

\* the mkdir operations that took f to g
Made(f, g) == {[op |-> "mkdir", p |-> q] : q \in DOMAIN g \ DOMAIN f}

\* ------------------------------------------------------------ link placement
\* What occupies dest before a leaf is placed, as the spec's table names it:
\* "none", "file", "dir", "broken" (a link whose target is missing), "same"
\* (a link resolving to target's canonical path) or "other" (any other link);
\* "orphan" when the directory dest would be in does not exist
PreKind(f, target, dest) ==
    IF IsErr(LPhys(f, dest)) THEN "orphan"
    ELSE IF KindAt(f, LPhys(f, dest)) # "link" THEN KindAt(f, LPhys(f, dest))
    ELSE IF ~exists(f, dest) THEN "broken"
    ELSE IF canonicalize(f, dest) = canonicalize(f, target) THEN "same"
    ELSE "other"

\* st = [fs, out, ops, err, n]: the filesystem, the leaf records, the other
\* mutations, the error (if any) and the index of the entry being placed.
\* One leaf record: the leaf's source and destination, what was at the
\* destination, the reported outcome, the syscalls that changed fs and
\* whether fs is another afterwards.
\* a leaf log that takes a conflict for a fatal error
Leaf_conflict_fatal(st, g, target, dest, outcome, sys) ==
    [st EXCEPT !.fs = g,
               !.out = @ \cup {[n |-> st.n, t |-> target, d |-> dest,
                                pre |-> PreKind(st.fs, target, dest),
                                out |-> outcome, sys |-> sys,
                                chg |-> g # st.fs]},
               !.err = IF outcome \in {"Failed", "Conflict"} THEN "io" ELSE @]
Leaf(st, g, target, dest, outcome, sys) ==
    [st EXCEPT !.fs = g,
               !.out = @ \cup {[n |-> st.n, t |-> target, d |-> dest,
                                pre |-> PreKind(st.fs, target, dest),
                                out |-> outcome, sys |-> sys,
                                chg |-> g # st.fs]},
               !.err = IF outcome = "Failed" THEN "io" ELSE @]

\* what symlink_file did with one leaf: [fs, out, sys]
Did(g, outcome, sys) == [fs |-> g, out |-> outcome, sys |-> sys]

\* symlink(target, dest)? after the removal, and the log line
relinked(ln, g, outcome) ==
    IF ln.r # "ok" THEN Did(g, "Failed", <<"remove">>)
    ELSE Did(ln.fs, outcome, <<"remove", "symlink">>)
\* remove_file(dest).map_err(..)?
removed(f, rm, target, dest, outcome) ==
    IF rm.r # "ok" THEN Did(f, "Failed", <<>>)
    ELSE relinked(symlink(rm.fs, target, dest), rm.fs, outcome)
\* a replace that removes dest and forgets to link it again
replace_unlinked(f, target, dest, outcome) ==
    IF remove_file(f, dest).r # "ok" THEN Did(f, "Failed", <<>>)
    ELSE Did(remove_file(f, dest).fs, outcome, <<"remove">>)
\* remove_file(dest) then symlink(target, dest): main.rs 331-335 and 339-343
replace(f, target, dest, outcome) ==
    removed(f, remove_file(f, dest), target, dest, outcome)

\* a comparison that takes every live link for the right one
compare_any(f, symlink_origin, t) ==
    IF IsErr(symlink_origin) \/ IsErr(t) THEN Did(f, "Failed", <<>>)
    ELSE Did(f, "UpToDate", <<>>)
\* target.canonicalize()? == symlink_origin
compare(f, symlink_origin, t) ==
    IF IsErr(symlink_origin) \/ IsErr(t) THEN Did(f, "Failed", <<>>)
    ELSE IF t = symlink_origin THEN Did(f, "UpToDate", <<>>)
    ELSE Did(f, "Conflict", <<>>)

\* an AlreadyExists arm that does not look for a broken link
existing_link_unhealed(f, target, dest) ==
    IF ~exists(f, dest) THEN Did(f, "Conflict", <<>>)
    ELSE compare(f, canonicalize(f, dest), canonicalize(f, target))
\* the AlreadyExists arm of symlink_file, without force, for a symbolic link
existing_link(f, target, dest) ==
    IF ~exists(f, dest) THEN replace(f, target, dest, "BrokenCleared")
    ELSE compare(f, canonicalize(f, dest), canonicalize(f, target))

\* an AlreadyExists arm that looks at the link before it looks at force
already_exists_compare_first(f, target, dest, frc) ==
    IF is_symlink(f, dest) THEN existing_link(f, target, dest)
    ELSE IF frc THEN replace(f, target, dest, "Replaced")
    ELSE Did(f, "Conflict", <<>>)
\* the AlreadyExists arm of symlink_file
already_exists(f, target, dest, frc) ==
    IF frc THEN replace(f, target, dest, "Replaced")
    ELSE IF is_symlink(f, dest) THEN existing_link(f, target, dest)
    ELSE Did(f, "Conflict", <<>>)

\* match symlink(target, dest) { Ok(()) => .., Err(err) => match err.kind() .. }
on_symlink(f, r, target, dest, frc) ==
    IF r.r = "ok" THEN Did(r.fs, "Created", <<"symlink">>)
    ELSE IF r.r = "exists" THEN already_exists(f, target, dest, frc)
    ELSE Did(f, "Failed", <<>>)

Logged(st, did, target, dest) == Leaf(st, did.fs, target, dest, did.out, did.sys)

symlink_file(st, target, dest, frc) ==
    Logged(st, on_symlink(st.fs, symlink(st.fs, target, dest), target, dest, frc),
           target, dest)

\* create_dir_all(dest_parent_dir).map_err(..)?
made_parent(st, m) ==
    [st EXCEPT !.fs = m.fs,
               !.ops = @ \cup Made(st.fs, m.fs),
               !.err = IF m.ok THEN @ ELSE "io"]
\* the destination's parent directory is made when it does not exist
\* (main.rs 300-309)
ensure_parent(st, dest_parent_dir) ==
    IF exists(st.fs, dest_parent_dir) THEN st
    ELSE made_parent(st, create_dir_all(st.fs, dest_parent_dir))

\* a placement that links the source whatever it is, a directory included
symlink_dir_all_flat(st, target, dest, frc, rev) ==
    symlink_file(st, target, dest, frc)

RECURSIVE symlink_dir_all(_, _, _, _, _)
RECURSIVE dir_entries(_, _, _, _, _, _)
RECURSIVE dir_entry(_, _, _, _, _, _)
\* one entry of the directory: its destination's parent is there, recurse
dir_entry(st, target, dest, entries, frc, rev) ==
    IF st.err # "" THEN st
    ELSE dir_entries(
             symlink_dir_all(st, join(target, Head(entries)),
                             join(dest, Head(entries)), frc, rev),
             target, dest, Tail(entries), frc, rev)
\* the for loop of symlink_dir_all over the entries read_dir returned
dir_entries(st, target, dest, entries, frc, rev) ==
    IF entries = <<>> \/ st.err # "" THEN st
    ELSE dir_entry(ensure_parent(st, parent(join(dest, Head(entries)))),
                   target, dest, entries, frc, rev)

symlink_dir_all(st, target, dest, frc, rev) ==
    IF is_dir(st.fs, target)
    THEN dir_entries(st, target, dest, read_dir(st.fs, target, rev), frc, rev)
    ELSE symlink_file(st, target, dest, frc)

\* resolve_home_dir: every "~" and every "$HOME" becomes the value of HOME
RECURSIVE resolve_home_dir(_)
resolve_home_dir(path) ==
    IF path = <<>> THEN <<>>
    ELSE (IF Head(path) \in {"~", "$HOME"} THEN Home ELSE <<Head(path)>>)
         \o resolve_home_dir(Tail(path))

\* a placement that always starts at dest itself
link_root_at_dest(f, target_path, dest_path) == dest_path

\* where symlink_files starts placing: inside dest when dest is a directory
link_root(f, target_path, dest_path) ==
    IF is_dir(f, dest_path)
    THEN join(dest_path, file_name(target_path))
    ELSE dest_path

\* symlink_files once target_path and dest_path are known
place(st, target_path, dest_path, frc, rev) ==
    IF IsErr(target_path) THEN [st EXCEPT !.err = "io"]
    ELSE symlink_dir_all(st, target_path,
                         link_root(st.fs, target_path, dest_path), frc, rev)

symlink_files(st, file, frc, rev) ==
    place(st, canonicalize(st.fs, resolve_home_dir(file.target)),
          resolve_home_dir(file.dest), frc, rev)

\* ---------------------------------------------------------------- templates
\* Option<PathBuf>: None is the empty path
None == <<>>
IsSome(p) == p # None

\* The template engine (upon) on the template files of the model: "tpl" is a
\* well-formed template that refers to the palette's variables, "tplUndef"
\* refers to a variable nothing defines, "tplBad" does not compile, and any
\* other text is a template without variables that renders to itself.
Compiles(data) == data # "tplBad"
Refs(data) ==
    IF data = "tpl" THEN {"wallpaper", "primary"}
    ELSE IF data = "tplUndef" THEN {"nosuch"}
    ELSE {}
Rendered(data) == IF data \in {"tpl", "tplUndef"} THEN "rendered" ELSE data

\* fs::write(path, text) where path resolves to q: the regular file there
\* gets the text
write_at(st, q, text) ==
    IF IsErr(q) \/ st.fs[q].k # "file" THEN [st EXCEPT !.err = "io"]
    ELSE [st EXCEPT !.fs = Put(st.fs, q, RegFile(text)),
                    !.ops = @ \cup {[op |-> "write", p |-> q]}]

\* a rendering that writes the text before it finds the failure
render_to_write_first(st, target_path, data, cfg) ==
    IF ~Compiles(data)
    THEN [write_at(st, Phys(st.fs, target_path), Rendered(data)) EXCEPT !.err = "syntax"]
    ELSE IF ~(Refs(data) \subseteq cfg)
    THEN [write_at(st, Phys(st.fs, target_path), Rendered(data)) EXCEPT !.err = "undefined"]
    ELSE write_at(st, Phys(st.fs, target_path), Rendered(data))

\* add_template, render and fs::write for the template text data
render_to(st, target_path, data, cfg) ==
    IF ~Compiles(data) THEN [st EXCEPT !.err = "syntax"]
    ELSE IF ~(Refs(data) \subseteq cfg) THEN [st EXCEPT !.err = "undefined"]
    ELSE write_at(st, Phys(st.fs, target_path), Rendered(data))

\* fs::read_to_string(&template_path), the template resolving to src
read_template(st, target_path, src, cfg) ==
    IF KindAt(st.fs, src) = "none" THEN [st EXCEPT !.err = "io"]
    ELSE IF st.fs[src].k # "file" THEN [st EXCEPT !.err = "io"]
    ELSE render_to(st, target_path, st.fs[src].c, cfg)

\* generate_template once target_path is known
generate_into(st, target_path, template, cfg) ==
    IF IsErr(target_path) THEN [st EXCEPT !.err = "io"]
    ELSE IF ~IsSome(template) THEN st
    ELSE read_template(st, target_path, Phys(st.fs, template), cfg)

\* generate_template: st = [fs, ops, err]
generate_template(st, file, cfg) ==
    generate_into(st, canonicalize(st.fs, file.target), file.template, cfg)

\* ------------------------------------------------------------------ palette
\* a manifest scan that finds no template
has_templates_never(m) == FALSE
has_templates(m) == \E i \in 1..Len(m.files) : IsSome(m.files[i].template)

\* colors::generate_material_colors: the variables it defines
material_colors == {"primary", "background"}

\* create_color_palette: [err, config, called]; `ok` is whether the palette
\* provider succeeds when it is called
create_color_palette(f, m, ok) ==
    IF IsSome(m.wallpaper)
    THEN IF IsErr(canonicalize(f, m.wallpaper))
         THEN [err |-> "palette", config |-> {}, called |-> FALSE]
         ELSE IF ok
         THEN [err |-> "", config |-> {"wallpaper"} \cup material_colors, called |-> TRUE]
         ELSE [err |-> "palette", config |-> {"wallpaper"}, called |-> TRUE]
    ELSE IF has_templates(m)
    THEN [err |-> "wallpaper", config |-> {}, called |-> FALSE]
    ELSE [err |-> "", config |-> {}, called |-> FALSE]

\* ------------------------------------------------------------------ inputs
\* the [files] table's entries the manifests of the model are made of
Pool ==
    [shell |-> [target |-> <<".", "f">>, dest |-> <<"~">>, template |-> None],
     deep  |-> [target |-> <<".", "f">>, dest |-> <<"~", "m", "l">>, template |-> None],
     nvim  |-> [target |-> <<".", "s">>, dest |-> <<"~", "n">>, template |-> None],
     conf  |-> [target |-> <<".", "g">>, dest |-> <<"~", "l">>, template |-> <<".", "t">>],
     tree  |-> [target |-> <<".", "s">>, dest |-> <<"$HOME">>, template |-> None]]
PoolNames == DOMAIN Pool

Entry(n) == [name |-> n, target |-> Pool[n].target, dest |-> Pool[n].dest,
             template |-> Pool[n].template]

\* IndexMap<String, File>: the entries in declaration order, names distinct
FileLists ==
    {[i \in 1..Len(ns) |-> Entry(ns[i])] :
        ns \in {s \in UNION {[1..k -> PoolNames] : k \in 0..MaxEntries} :
                   \A i, j \in 1..Len(s) : i # j => s[i] # s[j]}}

NoName == ""
\* the NAME arguments tried: none, and two names a manifest may or may not hold
Selectors == {NoName, "conf", "nvim"}
Cmds == {"sync", "link", "generate"}

\* what may occupy a destination before the first run
OccKinds == {"none", "file", "wrong", "right", "broken", "dir", "dirlink"}
Occupant(kind, right) ==
    CASE kind = "file"    -> RegFile("mine")
      [] kind = "wrong"   -> SymLink(<<"/", "o", "g">>)
      [] kind = "right"   -> SymLink(right)
      [] kind = "broken"  -> SymLink(<<"/", "o", "zz">>)
      [] kind = "dirlink" -> SymLink(<<"/", "o">>)
      [] OTHER            -> Dir

\* the repository /r (the manifest's directory), the home directory /h and
\* another directory /o
BaseFs ==
    (<<>> :> Dir) @@ (<<"h">> :> Dir) @@ (<<"o">> :> Dir) @@ (<<"r">> :> Dir)
    @@ (<<"o", "g">> :> RegFile("other"))
    @@ (<<"r", "f">> :> RegFile("text")) @@ (<<"r", "g">> :> RegFile("text"))
    @@ (<<"r", "t">> :> RegFile("tpl")) @@ (<<"r", "w">> :> RegFile("image"))
    @@ (<<"r", "s">> :> Dir) @@ (<<"r", "s", "b">> :> RegFile("text"))
    @@ (<<"r", "s", "c">> :> Dir) @@ (<<"r", "s", "c", "d">> :> RegFile("text"))

\* the home directory's content: the leaf destinations /h/f, /h/l and /h/s/b
\* hold an occupant of kind occ; /h/n does not exist
World(occ) ==
    (IF occ = "none" THEN <<>> :> Dir
     ELSE (<<"h", "f">> :> Occupant(occ, <<"/", "r", "f">>))
          @@ (<<"h", "l">> :> Occupant(occ, <<"/", "r", "g">>))
          @@ (<<"h", "s">> :> Dir)
          @@ (<<"h", "s", "b">> :> Occupant(occ, <<"/", "r", "s", "b">>)))
    @@ BaseFs

\* ------------------------------------------------------------------- the run
\* where parse_arguments starts once the arguments and the manifest are read:
\* sync and generate call create_color_palette first, link does not
FirstPc(c) == IF c = "link" THEN "select" ELSE "palette"
\* a loop body that renders first whenever the command renders
BodyPc_render_first(c) == IF c = "link" THEN "link" ELSE "render"
\* a loop body that places links under every command
BodyPc_always_link(c) == "link"
\* where the body of the loop over the entries starts
BodyPc(c) == IF c = "generate" THEN "render" ELSE "link"

Init ==
    /\ \E occ \in OccKinds : fs = World(occ)
    /\ \E files \in FileLists, wp \in {None, <<".", "w">>} :
          manifest = [wallpaper |-> wp, files |-> files]
    /\ cmd \in Cmds
    /\ force \in BOOLEAN
    /\ cmd = "generate" => ~force
    /\ name \in Selectors
    /\ pc = FirstPc(cmd)
    /\ todo = <<>>
    /\ config = {}
    /\ err = ""
    /\ events = <<>>
    /\ outcomes = {}
    /\ ops = {}
    /\ runs = 1
    /\ fsStart = fs
    /\ prev = [out |-> {}, err |-> "", started |-> fs]

\* the variables after create_color_palette returned r
PaletteDone(r) ==
    /\ config' = r.config
    /\ err' = r.err
    /\ events' = IF r.called THEN Append(events, [e |-> "palette", n |-> ""])
                 ELSE events
    /\ pc' = IF r.err = "" THEN "select" ELSE "done"

\* create_color_palette(&manifest.wallpaper, &mut config, &manifest)?
CreateColorPalette ==
    /\ pc = "palette"
    /\ \E ok \in BOOLEAN : PaletteDone(create_color_palette(fs, manifest, ok))
    /\ UNCHANGED <<fs, manifest, cmd, force, name, todo, outcomes, ops, runs,
                   fsStart, prev>>

\* the indices of the entries called nm
Named(nm) == {i \in 1..Len(manifest.files) : manifest.files[i].name = nm}

\* the entries the run visits: manifest.files.get(&name), or all in order
Picked ==
    IF name = NoName THEN [i \in 1..Len(manifest.files) |-> i]
    ELSE SetToSeq(Named(name))

\* if let Some(name) = name { manifest.files.get(&name) ... } else { for ... }
Select ==
    /\ pc = "select"
    /\ todo' = Picked
    /\ err' = IF name # NoName /\ Named(name) = {} THEN "notfound" ELSE ""
    /\ pc' = IF Picked = <<>> THEN "done" ELSE BodyPc(cmd)
    /\ UNCHANGED <<fs, manifest, cmd, force, name, config, events, outcomes, ops,
                   runs, fsStart, prev>>

\* the variables after symlink_files returned st for the entry called nm
Linked(st, nm) ==
    /\ fs' = st.fs
    /\ outcomes' = st.out
    /\ ops' = st.ops
    /\ err' = st.err
    /\ events' = Append(events, [e |-> "link", n |-> nm])
    /\ pc' = IF st.err # "" THEN "done"
             ELSE IF cmd = "sync" THEN "render" ELSE "next"

\* symlink_files(file, force)?
SymlinkFiles ==
    /\ pc = "link"
    /\ \E rev \in BOOLEAN :
          Linked(symlink_files([fs |-> fs, out |-> outcomes, ops |-> ops,
                                err |-> "", n |-> Head(todo)],
                               manifest.files[Head(todo)], force, rev),
                 manifest.files[Head(todo)].name)
    /\ UNCHANGED <<manifest, cmd, force, name, todo, config, runs, fsStart, prev>>

\* a loop that goes on to the next entry after a failed generate_template
Generated_continue(st, nm) ==
    /\ fs' = st.fs
    /\ ops' = st.ops
    /\ err' = st.err
    /\ events' = Append(events, [e |-> "render", n |-> nm])
    /\ pc' = "next"

\* the variables after generate_template returned st for the entry called nm
Generated(st, nm) ==
    /\ fs' = st.fs
    /\ ops' = st.ops
    /\ err' = st.err
    /\ events' = Append(events, [e |-> "render", n |-> nm])
    /\ pc' = IF st.err # "" THEN "done" ELSE "next"

\* if file.template.is_some() { generate_template(file, &config)?; }
GenerateTemplate ==
    /\ pc = "render"
    /\ IsSome(manifest.files[Head(todo)].template)
    /\ Generated(generate_template([fs |-> fs, ops |-> ops, err |-> ""],
                                   manifest.files[Head(todo)], config),
                 manifest.files[Head(todo)].name)
    /\ UNCHANGED <<manifest, cmd, force, name, todo, config, outcomes, runs,
                   fsStart, prev>>

\* the entry has no template: nothing is generated
SkipTemplate ==
    /\ pc = "render"
    /\ ~IsSome(manifest.files[Head(todo)].template)
    /\ pc' = "next"
    /\ UNCHANGED <<fs, manifest, cmd, force, name, todo, config, err, events,
                   outcomes, ops, runs, fsStart, prev>>

\* the loop goes to the next entry, or parse_arguments returns Ok(())
NextEntry ==
    /\ pc = "next"
    /\ todo' = Tail(todo)
    /\ pc' = IF Tail(todo) = <<>> THEN "done" ELSE BodyPc(cmd)
    /\ UNCHANGED <<fs, manifest, cmd, force, name, config, err, events, outcomes,
                   ops, runs, fsStart, prev>>

\* the user runs the same command again, nothing else touching the filesystem
Rerun ==
    /\ pc = "done"
    /\ runs < MaxRuns
    /\ runs' = runs + 1
    /\ prev' = [out |-> outcomes, err |-> err, started |-> fsStart]
    /\ fsStart' = fs
    /\ pc' = FirstPc(cmd)
    /\ todo' = <<>>
    /\ config' = {}
    /\ err' = ""
    /\ events' = <<>>
    /\ outcomes' = {}
    /\ ops' = {}
    /\ UNCHANGED <<fs, manifest, cmd, force, name>>

Next ==
    \/ CreateColorPalette
    \/ Select
    \/ SymlinkFiles
    \/ GenerateTemplate
    \/ SkipTemplate
    \/ NextEntry
    \/ Rerun

Spec == Init /\ [][Next]_vars

\* ------------------------------------------------- runs over template entries
\* A second family of runs: manifests of entries with templates, over
\* template files that are well formed, refer to an undefined variable, do
\* not compile, hold no variable, or are missing.
RenderPool ==
    [conf  |-> [target |-> <<".", "g">>, dest |-> <<"~", "l">>, template |-> <<".", "t">>],
     bar   |-> [target |-> <<".", "f">>, dest |-> <<"~", "k">>, template |-> <<".", "u">>],
     shell |-> [target |-> <<".", "s">>, dest |-> <<"~", "n">>, template |-> None]]
RenderEntry(n) ==
    [name |-> n, target |-> RenderPool[n].target, dest |-> RenderPool[n].dest,
     template |-> RenderPool[n].template]
RenderLists ==
    {[i \in 1..Len(ns) |-> RenderEntry(ns[i])] :
        ns \in {s \in UNION {[1..k -> DOMAIN RenderPool] : k \in 0..(MaxEntries + 1)} :
                   \A i, j \in 1..Len(s) : i # j => s[i] # s[j]}}
TemplateTexts == {"tpl", "tplUndef", "tplBad", "plain"}
\* the repository with template ./t holding tc (or missing) and ./u holding
\* uc, and ~/l a regular file or free
RenderWorld(tc, uc, occ) ==
    (IF occ = "file" THEN <<"h", "l">> :> RegFile("mine") ELSE <<>> :> Dir)
    @@ (<<"r", "u">> :> RegFile(uc))
    @@ (IF tc = "absent" THEN Drop(BaseFs, <<"r", "t">>)
        ELSE (<<"r", "t">> :> RegFile(tc)) @@ BaseFs)

\* the start of the first run, whatever the filesystem and the manifest
RunStart ==
    /\ pc = FirstPc(cmd)
    /\ todo = <<>>
    /\ config = {}
    /\ err = ""
    /\ events = <<>>
    /\ outcomes = {}
    /\ ops = {}
    /\ runs = 1
    /\ fsStart = fs
    /\ prev = [out |-> {}, err |-> "", started |-> fs]

InitRender ==
    /\ \E tc \in TemplateTexts \cup {"absent"}, uc \in {"tpl", "tplUndef", "tplBad"},
          occ \in {"none", "file"} : fs = RenderWorld(tc, uc, occ)
    /\ \E files \in RenderLists, wp \in {None, <<".", "w">>} :
          manifest = [wallpaper |-> wp, files |-> files]
    /\ cmd \in Cmds
    /\ force \in BOOLEAN
    /\ cmd = "generate" => ~force
    /\ name \in {NoName, "conf"}
    /\ RunStart

SpecRender == InitRender /\ [][Next]_vars

\* ------------------------------------------- runs over unusual source trees
\* A third family of runs: a source directory that holds a symbolic link (to
\* a file, to another directory, or to the source directory itself), an
\* entry whose destination is the directory its source lies in, and an entry
\* whose destination has a ~ that is not leading.
TreePool ==
    [nvim  |-> [target |-> <<".", "s">>, dest |-> <<"~", "n">>, template |-> None],
     self  |-> [target |-> <<".", "s">>, dest |-> <<".">>, template |-> None],
     tilde |-> [target |-> <<".", "f">>, dest |-> <<".", "~">>, template |-> None],
     conf  |-> [target |-> <<".", "g">>, dest |-> <<"~", "l">>, template |-> <<".", "t">>]]
TreeEntry(n) ==
    [name |-> n, target |-> TreePool[n].target, dest |-> TreePool[n].dest,
     template |-> TreePool[n].template]
TreeLists ==
    {[i \in 1..Len(ns) |-> TreeEntry(ns[i])] :
        ns \in {s \in UNION {[1..k -> DOMAIN TreePool] : k \in 0..MaxEntries} :
                   \A i, j \in 1..Len(s) : i # j => s[i] # s[j]}}
LinkKinds == {"none", "file", "dir", "ancestor"}
\* the repository with ./s/e a symbolic link of kind lk (or not there)
TreeWorld(lk) ==
    (CASE lk = "file"     -> <<"r", "s", "e">> :> SymLink(<<"/", "r", "f">>)
       [] lk = "dir"      -> <<"r", "s", "e">> :> SymLink(<<"/", "o">>)
       [] lk = "ancestor" -> <<"r", "s", "e">> :> SymLink(<<"/", "r", "s">>)
       [] OTHER           -> <<>> :> Dir)
    @@ BaseFs

InitTree ==
    /\ \E lk \in LinkKinds : fs = TreeWorld(lk)
    /\ \E files \in TreeLists, wp \in {None, <<".", "w">>} :
          manifest = [wallpaper |-> wp, files |-> files]
    /\ cmd \in Cmds
    /\ force \in BOOLEAN
    /\ cmd = "generate" => ~force
    /\ name \in {NoName, "nvim"}
    /\ RunStart

SpecTree == InitTree /\ [][Next]_vars

\* =================================================================== claims
IsPrefix(p, q) == Len(p) <= Len(q) /\ SubSeq(q, 1, Len(p)) = p
\* the node at dest itself (lstat), or a node of kind "none"
NodeAt(f, dest) ==
    IF KindAt(f, LPhys(f, dest)) = "none" THEN [k |-> "none", c |-> "", t |-> <<>>]
    ELSE f[LPhys(f, dest)]
\* the leaf records of the entry the loop is at
Placed == {r \in outcomes : todo # <<>> /\ r.n = Head(todo)}
Key(r) == [n |-> r.n, t |-> r.t, d |-> r.d]

\* C1: idempotence under force=false.  When the previous run ended without
\* error and created every link it handled, the run repeated on the
\* filesystem it left reports every leaf up to date, at the same destination
\* paths, performs no filesystem operation in link placement and does not
\* fail in it.
C1_Idempotent ==
    (runs > 1 /\ ~force /\ cmd \in {"link", "sync"} /\ prev.err = ""
        /\ prev.out # {} /\ \A r \in prev.out : r.out = "Created")
    => /\ \A r \in outcomes :
              /\ r.out = "UpToDate"
              /\ r.sys = <<>>
              /\ ~r.chg
              /\ \E r0 \in prev.out : Key(r0) = Key(r)
       /\ \A o \in ops : o.op # "mkdir"
       /\ err # "io"
       /\ (pc = "done" /\ err = "")
              => /\ {Key(r) : r \in outcomes} = {Key(r) : r \in prev.out}
                 /\ \A q \in DOMAIN fs : fs[q].k # "file" => q \in DOMAIN fsStart
                 /\ \A q \in DOMAIN fsStart : fsStart[q].k # "file" =>
                        q \in DOMAIN fs /\ fs[q] = fsStart[q]

C3_ConflictNoSideEffect ==
    ~force =>
        \A r \in outcomes :
            r.pre \in {"file", "dir", "other"}
            => r.out = "Conflict" /\ r.sys = <<>> /\ ~r.chg

C3_Witness ==
    /\ ~force
    /\ pc = "done"
    /\ cmd = "link"
    /\ \E r \in outcomes : r.pre = "other" /\ r.out = "Conflict"
    /\ \A r \in outcomes : r.out = "Conflict"
    /\ fs = fsStart

\* C4: broken-link auto-heal.  A leaf destination that is a symbolic link
\* whose target does not exist is removed and linked to the source, with and
\* without force; afterwards it resolves to the source leaf.
C4_BrokenLinkHealed ==
    \A r \in Placed :
        r.pre = "broken"
        => /\ r.out = (IF force THEN "Replaced" ELSE "BrokenCleared")
           /\ r.sys = <<"remove", "symlink">>
           /\ NodeAt(fs, r.d) = SymLink(r.t)
           /\ ~IsErr(canonicalize(fs, r.d))
           /\ canonicalize(fs, r.d) = canonicalize(fs, r.t)

C4_Witness ==
    /\ ~force
    /\ \E r \in Placed : r.pre = "broken" /\ r.out = "BrokenCleared"
                         /\ canonicalize(fs, r.d) = r.t

\* C5 as stated: an up-to-date link is a no-op under both force values: no
\* removal, no re-creation, reported up to date.
C5_UpToDateNoOp ==
    \A r \in outcomes :
        r.pre = "same" => r.out = "UpToDate" /\ r.sys = <<>>

\* C5 amended: without force an up-to-date link is reported up to date and
\* nothing is done to the filesystem; with force the link is removed and
\* created again, and points at the source afterwards.
C5_UpToDateByForce ==
    \A r \in Placed :
        r.pre = "same"
        => IF force
           THEN /\ r.out = "Replaced"
                /\ r.sys = <<"remove", "symlink">>
                /\ NodeAt(fs, r.d) = SymLink(r.t)
           ELSE /\ r.out = "UpToDate"
                /\ r.sys = <<>>
                /\ ~r.chg

C5_Witness ==
    /\ force
    /\ \E r \in Placed : r.pre = "same" /\ r.out = "Replaced"
                         /\ NodeAt(fs, r.d) = SymLink(r.t)

\* the entry the loop is at, its canonical source, its resolved destination,
\* and the place inside the destination named after the source
CurFile == manifest.files[Head(todo)]
CurTarget == canonicalize(fs, resolve_home_dir(CurFile.target))
CurDest == resolve_home_dir(CurFile.dest)
Inside == join(CurDest, file_name(CurTarget))
\* the physical leaves (everything that is no directory) below the source
\* directory, as paths relative to it
SrcLeaves ==
    {SubSeq(q, Len(Phys(fs, CurTarget)) + 1, Len(q)) :
        q \in {x \in DOMAIN fs : /\ IsPrefix(Phys(fs, CurTarget), x)
                                 /\ x # Phys(fs, CurTarget)
                                 /\ fs[x].k # "dir"}}

\* C6: the directory-destination rule.  When the entry's destination is an
\* existing directory, link placement works at destination/<base name of the
\* source> and leaves the destination itself as it is: every leaf handled
\* lies at or below that place, a single-file source has exactly that place
\* as its leaf, and when nothing was there it is created and resolves to the
\* canonical path of the source.
C6_DirectoryDestination ==
    [][(pc = "link" /\ ~IsErr(CurTarget) /\ is_dir(fs, CurDest))
       => /\ \A r \in outcomes' \ outcomes : IsPrefix(Inside, r.d)
          /\ NodeAt(fs', CurDest) = NodeAt(fs, CurDest)
          /\ ~is_dir(fs, CurTarget)
                => /\ {r.d : r \in outcomes' \ outcomes} = {Inside}
                   /\ PreKind(fs, CurTarget, Inside) = "none"
                         => /\ \A r \in outcomes' \ outcomes : r.out = "Created"
                            /\ NodeAt(fs', Inside) = SymLink(CurTarget)
                            /\ canonicalize(fs', Inside) = CurTarget
      ]_vars

\* the scenario of the spec: source ./f, destination ~ with no ~/f before
C6_Witness ==
    /\ is_dir(fsStart, resolve_home_dir(<<"~">>))
    /\ KindAt(fsStart, <<"h", "f">>) = "none"
    /\ \E r \in outcomes :
          /\ manifest.files[r.n].dest = <<"~">>
          /\ r.d = <<"/", "h", "f">>
          /\ r.out = "Created"
          /\ canonicalize(fs, <<"/", "h", "f">>) = <<"/", "r", "f">>

\* C7: directory expansion.  Placing a source directory without error
\* handles exactly one leaf per leaf file of the source, at (the place link
\* placement works at)/<the leaf's path relative to the source directory>;
\* every link it creates points at a leaf, never at a directory; a leaf whose
\* destination was free is a link to it afterwards; and every directory on
\* the way to a leaf that was missing is a real directory afterwards, made
\* by link placement.
C7_DirectoryExpansion ==
    [][(pc = "link" /\ ~IsErr(CurTarget) /\ is_dir(fs, CurTarget) /\ err' = "")
       => /\ {[t |-> r.t, d |-> r.d] : r \in outcomes' \ outcomes}
               = {[t |-> CurTarget \o x,
                   d |-> (IF is_dir(fs, CurDest) THEN Inside ELSE CurDest) \o x] :
                      x \in SrcLeaves}
          /\ Cardinality(outcomes' \ outcomes) = Cardinality(SrcLeaves)
          /\ \A r \in outcomes' \ outcomes :
                /\ ~is_dir(fs', r.t)
                /\ r.pre = "none" => r.out = "Created" /\ NodeAt(fs', r.d) = SymLink(r.t)
                /\ \A k \in 1..(Len(r.d) - 1) :
                      ~exists(fs, SubSeq(r.d, 1, k))
                      => /\ KindAt(fs', LPhys(fs', SubSeq(r.d, 1, k))) = "dir"
                         /\ [op |-> "mkdir", p |-> LPhys(fs', SubSeq(r.d, 1, k))] \in ops'
          /\ \A q \in DOMAIN fs' \ DOMAIN fs :
                fs'[q].k = "link" => ~is_dir(fs', fs'[q].t)
      ]_vars

\* source directory s with b and c/d, destination ~/n that does not exist
C7_Witness ==
    /\ KindAt(fsStart, <<"h", "n">>) = "none"
    /\ fs[<<"r", "s", "c">>].k = "dir"
    /\ KindAt(fs, <<"h", "n", "c">>) = "dir"
    /\ [op |-> "mkdir", p |-> <<"h", "n", "c">>] \in ops
    /\ NodeAt(fs, <<"/", "h", "n", "b">>) = SymLink(<<"/", "r", "s", "b">>)
    /\ NodeAt(fs, <<"/", "h", "n", "c", "d">>) = SymLink(<<"/", "r", "s", "c", "d">>)
    /\ \E r \in outcomes : r.d = <<"/", "h", "n", "c", "d">> /\ r.out = "Created"

\* whether the entry called nm declares a template
HasTemplate(nm) == \E i \in Named(nm) : IsSome(manifest.files[i].template)
\* the names of the entries event e happened for, in the order it happened
NamesOf(e) ==
    [i \in 1..Len(SelectSeq(events, LAMBDA x : x.e = e)) |->
        SelectSeq(events, LAMBDA x : x.e = e)[i].n]
DeclaredNames == [i \in 1..Len(manifest.files) |-> manifest.files[i].name]

\* C8 as stated: under sync, for every entry that declares a template, the
\* template is rendered before link placement is attempted for the entry.
C8_RenderBeforeLink ==
    cmd = "sync" =>
        \A k \in 1..Len(events) :
            (events[k].e = "link" /\ HasTemplate(events[k].n))
            => \E j \in 1..(k - 1) : events[j] = [e |-> "render", n |-> events[k].n]

\* C8 amended: under sync, for every entry that declares a template, link
\* placement for the entry is attempted before its template is rendered: a
\* render is preceded by the link placement of its entry, no link placement
\* follows the render of its entry, and a sync that ends without error has
\* rendered every template entry it linked.
C8_LinkBeforeRender ==
    cmd = "sync" =>
        /\ \A k \in 1..Len(events) :
              events[k].e = "render"
              => /\ \E j \in 1..(k - 1) : events[j] = [e |-> "link", n |-> events[k].n]
                 /\ \A j \in (k + 1)..Len(events) :
                       events[j] # [e |-> "link", n |-> events[k].n]
        /\ (pc = "done" /\ err = "")
              => \A k \in 1..Len(events) :
                    (events[k].e = "link" /\ HasTemplate(events[k].n))
                    => \E j \in (k + 1)..Len(events) :
                          events[j] = [e |-> "render", n |-> events[k].n]

C8_Witness ==
    /\ cmd = "sync"
    /\ pc = "done"
    /\ err = ""
    /\ \E k \in 1..Len(events) : events[k].e = "render"
    /\ \E o \in ops : o.op = "write"

\* C9: mode gating.  A link run never calls the palette or the template
\* generation and writes no file: every regular file is a file of the start
\* with its content.  A generate run never places a link: it handles no
\* leaf, makes no directory, and every path, link and directory is as at the
\* start.
C9_ModeGating ==
    /\ cmd = "link"
          => /\ \A k \in 1..Len(events) : events[k].e = "link"
             /\ \A o \in ops : o.op # "write"
             /\ config = {}
             /\ \A q \in DOMAIN fs :
                   fs[q].k = "file" => q \in DOMAIN fsStart /\ fsStart[q] = fs[q]
    /\ cmd = "generate"
          => /\ \A k \in 1..Len(events) : events[k].e # "link"
             /\ outcomes = {}
             /\ \A o \in ops : o.op = "write"
             /\ DOMAIN fs = DOMAIN fsStart
             /\ \A q \in DOMAIN fs :
                   (fs[q].k # "file" \/ fsStart[q].k # "file") => fs[q] = fsStart[q]

\* a link run over an entry with a template, and a generate run that wrote
C9_Witness ==
    \/ /\ cmd = "link"
       /\ pc = "done"
       /\ \E k \in 1..Len(events) : HasTemplate(events[k].n)
       /\ \E r \in outcomes : r.out = "Created"
    \/ /\ cmd = "generate"
       /\ pc = "done"
       /\ \E o \in ops : o.op = "write"
       /\ fs # fsStart

\* C10: selection.  With a NAME the manifest holds, only that entry is linked
\* or rendered; with a NAME it does not hold, the run ends with the not-found
\* error and has changed nothing; without NAME a run that ends without error
\* has handled the entries in the order of the manifest.
C10_Selection ==
    /\ (name # NoName /\ Named(name) # {})
          => \A k \in 1..Len(events) :
                events[k].e \in {"link", "render"} => events[k].n = name
    /\ (name # NoName /\ Named(name) = {} /\ pc = "done")
          => /\ err = "notfound"
             /\ fs = fsStart
             /\ ops = {}
             /\ outcomes = {}
    /\ (name = NoName /\ pc = "done" /\ err = "")
          => /\ cmd \in {"link", "sync"} => NamesOf("link") = DeclaredNames
             /\ cmd \in {"generate", "sync"}
                   => NamesOf("render") = SelectSeq(DeclaredNames, HasTemplate)

\* the indices of the entries the NAME argument selects
Selected == IF name = NoName THEN 1..Len(manifest.files) ELSE Named(name)

\* C11: missing-wallpaper fail-fast.  Under sync or generate, when the
\* manifest declares no wallpaper and a selected entry has a template, the
\* run ends with the missing-wallpaper error and nothing has happened before
\* it: no entry was visited, no leaf handled, no directory made, no file
\* written, and the filesystem is the one the first run started in.
C11_MissingWallpaperFailFast ==
    (/\ cmd \in {"sync", "generate"}
     /\ manifest.wallpaper = None
     /\ \E i \in Selected : IsSome(manifest.files[i].template))
    => /\ pc \in {"palette", "done"}
       /\ pc = "done" => err = "wallpaper"
       /\ events = <<>>
       /\ outcomes = {}
       /\ ops = {}
       /\ fs = fsStart
       /\ fs = prev.started

C11_Witness ==
    /\ cmd = "sync"
    /\ manifest.wallpaper = None
    /\ name = "conf"
    /\ Len(manifest.files) = 2
    /\ Named("conf") = {2}
    /\ pc = "done"
    /\ err = "wallpaper"
    /\ fs = fsStart

\* the run ended with an error that no link placement raised: the palette
\* step failed, or the last thing the run did was a render
FailedOutsideLinks ==
    \/ err \in {"wallpaper", "palette"}
    \/ err # "" /\ events # <<>> /\ events[Len(events)].e = "render"

\* C12: conflicts do not stop the run.  A link placement none of whose
\* leaves failed handles every leaf of its entry (one leaf for a file, one
\* per leaf file for a directory) and the run goes on; a run over all
\* entries in which no leaf failed, whatever was reported as up to date, as
\* a cleared broken link or as a conflict, has placed every entry in turn
\* and ends without error (exit code 0).
C12_ConflictsDoNotStop ==
    /\ [](  (/\ pc = "done"
             /\ cmd \in {"link", "sync"}
             /\ name = NoName
             /\ ~FailedOutsideLinks
             /\ \A r \in outcomes : r.out # "Failed")
          => /\ err = ""
             /\ NamesOf("link") = DeclaredNames
             /\ \A i \in 1..Len(manifest.files) : \E r \in outcomes : r.n = i)
    /\ [][(/\ pc = "link"
           /\ ~IsErr(CurTarget)
           /\ \A r \in outcomes' \ outcomes : r.out # "Failed")
          => /\ err' = ""
             /\ pc' \in {"render", "next"}
             /\ Cardinality(outcomes' \ outcomes)
                   = IF is_dir(fs, CurTarget) THEN Cardinality(SrcLeaves) ELSE 1
         ]_vars

\* a conflict on the first leaf of the first entry, a link created for its
\* second leaf, and the second entry placed after it
C12_Witness ==
    /\ pc = "done"
    /\ err = ""
    /\ Len(manifest.files) = 2
    /\ \E r1, r2, r3 \in outcomes :
          /\ r1.n = 1 /\ r1.out = "Conflict"
          /\ r2.n = 1 /\ r2.out = "Created"
          /\ r3.n = 2 /\ r3.out \in {"Conflict", "UpToDate", "BrokenCleared"}

\* the text of the template of the entry the loop is at ("" when the
\* template is no readable file), and the file the entry's source resolves to
CurTemplateText ==
    IF KindAt(fs, Phys(fs, CurFile.template)) = "file"
    THEN fs[Phys(fs, CurFile.template)].c ELSE ""
CurSource == Phys(fs, CurFile.target)

\* C13: failed render writes nothing.  When generate_template fails for an
\* entry (in particular on a template that does not compile or that refers
\* to a variable the mapping does not define) the filesystem is as before
\* and nothing is written; when it succeeds the rendered text is the new
\* content of the file the entry's source resolves to, every other node is
\* as before, and the destination's own node is not the one written.
C13_FailedRenderWritesNothing ==
    [][(pc = "render" /\ IsSome(CurFile.template))
       => /\ CurTemplateText = "tplBad" => err' = "syntax"
          /\ (CurTemplateText = "tplUndef" /\ ~IsErr(CurSource)) => err' = "undefined"
          /\ err' # "" => fs' = fs /\ ops' = ops
          /\ err' = ""
                => /\ DOMAIN fs' = DOMAIN fs
                   /\ fs'[CurSource] = RegFile(Rendered(CurTemplateText))
                   /\ \A q \in DOMAIN fs : q # CurSource => fs'[q] = fs[q]
                   /\ LPhys(fs, CurDest) # CurSource
                   /\ ops' = ops \cup {[op |-> "write", p |-> CurSource]}
      ]_vars

\* a generate run ended on a template that refers to an undefined variable,
\* the source file and the regular file at the destination as they were
C13_Witness ==
    /\ cmd = "generate"
    /\ pc = "done"
    /\ err = "undefined"
    /\ events # <<>>
    /\ events[Len(events)] = [e |-> "render", n |-> "conf"]
    /\ fs[<<"r", "g">>] = RegFile("text")
    /\ fs[<<"h", "l">>] = RegFile("mine")
    /\ ops = {}

\* C15: a template failure aborts the whole run.  When a template syntax or
\* undefined-variable failure has happened the run is over with that error
\* (non-zero exit), the failed render is the last thing it did, no entry
\* after the failing one was linked or rendered, and what earlier entries
\* got is still there: the links placed and the texts written.
C15_TemplateFailureAborts ==
    err \in {"syntax", "undefined"}
    => /\ pc = "done"
       /\ cmd \in {"sync", "generate"}
       /\ events[Len(events)] = [e |-> "render", n |-> manifest.files[Head(todo)].name]
       /\ \A k \in 2..Len(todo) :
             \A j \in 1..Len(events) : events[j].n # manifest.files[todo[k]].name
       /\ \A r \in outcomes :
             r.out \in {"Created", "Replaced", "BrokenCleared"}
             => NodeAt(fs, r.d) = SymLink(r.t)
       /\ \A o \in ops :
             o.op = "write" => \E x \in TemplateTexts : fs[o.p] = RegFile(Rendered(x))

\* a sync over three entries fails on the template of the second: the first
\* entry is linked and rendered, the third is not touched
C15_Witness ==
    /\ cmd = "sync"
    /\ err \in {"syntax", "undefined"}
    /\ Len(manifest.files) = 3
    /\ todo = <<2, 3>>
    /\ \E r \in outcomes : r.n = 1 /\ r.out = "Created"
    /\ [op |-> "write", p |-> Phys(fs, manifest.files[1].target)] \in ops
    /\ \A j \in 1..Len(events) : events[j].n # manifest.files[3].name

\* C14: a filesystem failure is isolated to one entry.  A link or sync run
\* over all entries that was not ended by the palette step or by a render
\* has placed every entry of the manifest in turn, also after an entry one
\* of whose leaves failed.
C14_FailureIsolated ==
    (/\ pc = "done"
     /\ cmd \in {"link", "sync"}
     /\ name = NoName
     /\ ~FailedOutsideLinks)
    => NamesOf("link") = DeclaredNames

\* C16: the palette only when needed and at most once.  In every run the
\* palette provider is invoked at most once; it is not invoked when no entry
\* declares a template, with or without a wallpaper; a link run never
\* invokes it.
C16_PaletteOnlyWhenNeeded ==
    /\ Len(NamesOf("palette")) <= 1
    /\ ~has_templates(manifest) => NamesOf("palette") = <<>>
    /\ cmd = "link" => NamesOf("palette") = <<>>

\* C18: missing destination parents are created for every kind of entry.
\* A leaf whose destination's parent directory did not exist is created like
\* any other: the parent directories are made and the link is there.
C18_MissingParentsCreated ==
    \A r \in outcomes :
        r.pre = "orphan"
        => /\ r.out = "Created"
           /\ NodeAt(fs, r.d) = SymLink(r.t)
           /\ is_dir(fs, parent(r.d))

\* C17: expansion never follows symbolic links.  Placing a source directory
\* handles as leaves exactly the nodes below it that are no directories, a
\* symbolic link among them whatever it points at: no leaf is reached
\* through a symbolic link of the source tree.
C17_LinksAreLeaves ==
    [][(pc = "link" /\ ~IsErr(CurTarget) /\ is_dir(fs, CurTarget))
       => /\ \A r \in outcomes' \ outcomes :
                \A k \in (Len(CurTarget) + 1)..(Len(r.t) - 1) :
                    ~is_symlink(fs, SubSeq(r.t, 1, k))
          /\ err' = ""
                => {r.t : r \in outcomes' \ outcomes}
                      = {CurTarget \o x : x \in SrcLeaves}
      ]_vars

\* path with its leading ~ and its $HOME tokens replaced by HOME, every other
\* token kept
RECURSIVE HomeTokens(_)
HomeTokens(path) ==
    IF path = <<>> THEN <<>>
    ELSE (IF Head(path) = "$HOME" THEN Home ELSE <<Head(path)>>)
         \o HomeTokens(Tail(path))
LeadingHome(path) ==
    IF path # <<>> /\ Head(path) = "~" THEN Home \o HomeTokens(Tail(path))
    ELSE HomeTokens(path)

\* C19: home expansion.  The destination link placement works at is the
\* declared destination with its leading ~ and its $HOME tokens replaced by
\* the value of HOME and everything else unchanged, a ~ that is not leading
\* included: every leaf handled lies at or below that path.
C19_HomeExpansion ==
    \A r \in outcomes :
        /\ resolve_home_dir(manifest.files[r.n].dest)
              = LeadingHome(manifest.files[r.n].dest)
        /\ IsPrefix(LeadingHome(manifest.files[r.n].dest), r.d)

\* C20: link placement never damages the source tree.  Whatever the force
\* value and the destination, every node at or below the entry's source is
\* there after the placement as it was before it.
C20_SourceIntact ==
    [][(pc = "link" /\ ~IsErr(CurTarget))
       => \A q \in DOMAIN fs :
             IsPrefix(Phys(fs, CurTarget), q) => q \in DOMAIN fs' /\ fs'[q] = fs[q]
      ]_vars

\* C21: force never removes a directory.  A leaf whose destination is a real
\* directory is reported as a conflict without force and fails the run with
\* force; in both cases no syscall changes the filesystem and the directory
\* is still there; and no directory that was there when a run started, or
\* when the first run started, is ever missing or anything but a directory.
C21_ForceKeepsDirectories ==
    /\ \A r \in outcomes :
          r.pre = "dir"
          => /\ r.out = IF force THEN "Failed" ELSE "Conflict"
             /\ r.sys = <<>>
             /\ ~r.chg
             /\ KindAt(fs, LPhys(fs, r.d)) = "dir"
             /\ force => err = "io" /\ pc = "done"
    /\ \A q \in DOMAIN fsStart : fsStart[q].k = "dir" => KindAt(fs, q) = "dir"
    /\ \A q \in DOMAIN prev.started : prev.started[q].k = "dir" => KindAt(fs, q) = "dir"

\* a forced run ended on the directory at ~/f, which is still there
C21_Witness ==
    /\ force
    /\ pc = "done"
    /\ err = "io"
    /\ \E r \in outcomes :
          r.pre = "dir" /\ r.out = "Failed" /\ r.d = <<"/", "h", "f">>
    /\ KindAt(fs, <<"h", "f">>) = "dir"
    /\ fs = fsStart

\* C22: the wallpaper is required only by what is selected.  Under sync or
\* generate with no wallpaper, a run that selects by name an entry without a
\* template does not end with the missing-wallpaper error, and under sync it
\* places that entry, whatever templates the other entries declare.
C22_WallpaperOnlyForSelected ==
    (/\ cmd \in {"sync", "generate"}
     /\ manifest.wallpaper = None
     /\ name # NoName
     /\ Named(name) # {}
     /\ \A i \in Named(name) : ~IsSome(manifest.files[i].template))
    => /\ err # "wallpaper"
       /\ (pc = "done" /\ cmd = "sync")
             => \E k \in 1..Len(events) : events[k] = [e |-> "link", n |-> name]

====
